---- MODULE Spec2Model ----
(***************************************************************************)
(* Research pipeline of dair-ai/dr-agent.                                  *)
(*                                                                         *)
(* Spec      : the in-process pipeline of src/lib/agent/orchestrator.ts    *)
(*             (runResearchPipeline and its three stage executors) over    *)
(*             the search adapter searchWeb / getContents.                 *)
(*                                                                         *)
(* One action is one run of the code between two suspension points         *)
(* (awaits): the capability's answer is the action's input.                *)
(***************************************************************************)
EXTENDS Integers, Sequences, FiniteSets, TLC

(***************************************************************************)
(* Bounds of the model.                                                    *)
(***************************************************************************)
MaxQueries == 2
NumUrls == 2
MaxResults == 2
MaxTextLen == 3

\* sources.slice(0, 8): number of sources whose content is fetched
TopSources == 8

Urls == 1..NumUrls

(***************************************************************************)
(* State of one run of runResearchPipeline.                                *)
(***************************************************************************)
VARIABLES
    pc,            \* suspension point the run is at
    events,        \* calls made on the OrchestratorCallbacks, in order
    plan,          \* the SearchPlan handed from planning to searching
    i,             \* loop index of the search loop
    sources,       \* Source[] of runSearchStage
    seenUrls,      \* Set<string> of runSearchStage
    contents,      \* string[] of runSearchStage (one entry per fetched document)
    result,        \* OrchestratorResult returned by runResearchPipeline
    returnedUrls,  \* URLs returned so far by successful searchWeb calls
    searchFailed,  \* the Exa call of some searchWeb call of the run failed
    contentsFailed, \* the Exa call of the getContents call of the run failed
    noJsonObject,  \* the Planner's LLM answered, and its answer holds no JSON object
    dupReturned,   \* a searchWeb call returned a URL an earlier call had returned
    scriptOut,     \* stdout of the research script run with the same capability outcomes
    scriptExit,    \* its exit code, -1 while it runs
    \* one request to POST /research
    rpc,           \* suspension point of the request: idle, responded, *_await, closed
    response,      \* the HTTP response: status, and whether its body is the stream
    mode,          \* executionMode
    out,           \* lines written to the stream with controller.enqueue, in order
    currentStage,  \* currentStage of runResearchDirect / runResearchWithSandbox
    closeCount,    \* number of controller.close() calls
    sandbox,       \* the sandbox of runResearchInSandbox: null, running, stopped
    stdoutBuf,     \* stdout of the research script in the sandbox
    produced,      \* number of messages the Agent SDK has produced
    blocksUsed,    \* number of content blocks in the messages produced
    sdkDone,       \* the Agent SDK has produced its result message
    request,       \* the request whose body request.json() is reading
    cancelled,     \* the client has cancelled the response stream
    emitted,       \* messages runResearchInSandbox has produced, in order
    \* one call of runResearchInSandbox(topic, callbacks)
    vpc,           \* suspension point of the call
    vsandbox,      \* its sandbox: null, running, stopped
    vcalls,        \* calls made on the SandboxCallbacks, in order
    vresult,       \* how the call ended: the SandboxResult, or the error thrown
    \* what has happened in the sandbox of the call in progress
    installed,     \* how npm install ended: none, ok, nonzero, throw
    scriptRan,     \* the research script was started
    afterAbort,    \* messages the agent has produced since the client cancelled
    \* one call of getExecutionMode
    processEnv,    \* process.env
    decided,       \* what the call returned, "none" before it
    \* the hook useResearchAgent in the browser
    clientStatus,  \* status: idle, researching, completed, error
    clientStage,   \* currentStage (and currentStageRef)
    clientStages,  \* stages: the status of each stage of the progress map
    clientSources, \* sources: the URLs of the Source list, in order
    clientReport,  \* report: null, or where its text came from
    clientError,   \* error: null or set
    reportRef,     \* length of reportRef.current
    isCapturingReportRef,
    abortControllerRef, \* the call whose AbortController it holds, 0 for null
    calls          \* the calls of startResearch: where each is, its signal

pvars == <<pc, events, plan, i, sources, seenUrls, contents, result,
           returnedUrls, searchFailed, contentsFailed, noJsonObject, dupReturned,
           scriptOut, scriptExit>>

rvars == <<rpc, response, mode, out, currentStage, closeCount, sandbox,
           stdoutBuf, produced, blocksUsed, sdkDone, request, cancelled, emitted>>

svars == <<vpc, vsandbox, vcalls, vresult>>

gvars == <<installed, scriptRan>>

evars == <<processEnv, decided>>

cvars == <<clientStatus, clientStage, clientStages, clientSources, clientReport,
           clientError, reportRef, isCapturingReportRef, abortControllerRef, calls>>

ovars == <<cvars, evars, afterAbort>>

vars == <<pvars, rvars, svars, gvars, ovars>>

(***************************************************************************)
(* Callback events (OrchestratorCallbacks).                                *)
(***************************************************************************)
StageChange(stage, status, msg) ==
    [type |-> "stage_change", stage |-> stage, status |-> status, msg |-> msg, url |-> 0]

StatusEvent(msg, stage) ==
    [type |-> "status", stage |-> stage, status |-> "", msg |-> msg, url |-> 0]

SourceEvent(source) ==
    [type |-> "source", stage |-> "", status |-> "", msg |-> "", url |-> source.url]

ErrorEvent(msg, stage) ==
    [type |-> "error", stage |-> stage, status |-> "", msg |-> msg, url |-> 0]

(***************************************************************************)
(* The stdout protocol of the research script that generateResearchScript  *)
(* writes, and its translation back into calls on the callbacks.           *)
(***************************************************************************)
\* a line console.log('__MSG__' + JSON.stringify({type, data})) of the script
ScriptMsg(type, stage, status, msg, url) ==
    [prefix |-> "__MSG__", type |-> type, stage |-> stage, status |-> status,
     msg |-> msg, url |-> url]

\* a line that starts with __MSG__ and does not parse
MalformedLine == ScriptMsg("malformed", "", "", "", 0)

\* any other line of stdout
PlainLine == [prefix |-> "plain", type |-> "", stage |-> "", status |-> "", msg |-> "", url |-> 0]

\* the switch over message.type: the calls one line makes on the callbacks
DispatchLine(line) ==
    IF line.prefix # "__MSG__" THEN <<>>
    ELSE IF line.type = "stage_change"
    THEN <<StageChange(line.stage, line.status, line.msg)>>
    ELSE IF line.type = "status" THEN <<StatusEvent(line.msg, line.stage)>>
    ELSE IF line.type = "source" THEN <<SourceEvent([url |-> line.url])>>
    ELSE IF line.type = "error" THEN <<ErrorEvent(line.msg, line.stage)>>
    ELSE <<>>

\* for (const line of lines): the calls made on the callbacks, in order
RECURSIVE Dispatch(_, _)
Dispatch(lines, p) ==
    IF p > Len(lines) THEN <<>>
    ELSE DispatchLine(lines[p]) \o Dispatch(lines, p + 1)

NoPlan == [nq |-> 0, ntypes |-> 0]

\* the variables of process.env the server reads
EnvNames == {"ANTHROPIC_API_KEY", "EXA_API_KEY", "VERCEL", "VERCEL_ENV",
             "VERCEL_TOKEN", "VERCEL_PROJECT_ID"}

NoResult == [success |-> FALSE, report |-> "", sources |-> <<>>, error |-> ""]

(***************************************************************************)
(* Sequences of length at most n over S.                                   *)
(***************************************************************************)
SeqUpTo(S, n) == UNION {[1..k -> S] : k \in 0..n}

(***************************************************************************)
(* The Planner's LLM response.  The text is a sequence of tokens: "{" and  *)
(* "}" are braces, "k" is well-formed JSON member text, "x" is prose.      *)
(* queries / types give the lengths of the arrays the JSON object holds,   *)
(* -1 when the member is absent.                                           *)
(***************************************************************************)
Tokens == {"{", "}", "k", "x"}

PlannerKinds == {"api_error", "no_content", "non_text", "text"}

PlannerResponses ==
    [kind : PlannerKinds \ {"text"}, text : {<<>>}, queries : {-1}, types : {-1}]
    \cup
    [kind : {"text"}, text : SeqUpTo(Tokens, MaxTextLen),
     queries : -1..MaxQueries, types : -1..MaxQueries]

\* content.text.match(/\{[\s\S]*\}/): from the first "{" to the last "}"
Positions(text, tok) == {p \in 1..Len(text) : text[p] = tok}

Min(S) == CHOOSE m \in S : \A n \in S : m <= n

Max(S) == CHOOSE m \in S : \A n \in S : m >= n

HasJsonMatch(text) ==
    /\ Positions(text, "{") # {}
    /\ Positions(text, "}") # {}
    /\ Min(Positions(text, "{")) < Max(Positions(text, "}"))

JsonMatch(text) ==
    SubSeq(text, Min(Positions(text, "{")), Max(Positions(text, "}")))

\* JSON.parse(jsonMatch[0]): the region is one object, braces balanced, no prose
RECURSIVE Balanced(_, _, _)
Balanced(region, p, depth) ==
    IF p > Len(region) THEN depth = 0
    ELSE IF region[p] = "x" THEN FALSE
    ELSE IF region[p] = "{" THEN Balanced(region, p + 1, depth + 1)
    ELSE IF region[p] = "}" THEN
        /\ depth > 0
        /\ (depth = 1 => p = Len(region))
        /\ Balanced(region, p + 1, depth - 1)
    ELSE depth > 0 /\ Balanced(region, p + 1, depth)

JsonParses(region) == Balanced(region, 1, 0)

\* a planner that goes on with an empty plan when the response holds no "{...}"
PlanOutcomeLenient(resp) ==
    IF resp.kind = "api_error" THEN "api_error"
    ELSE IF resp.kind = "no_content" THEN "type_error"
    ELSE IF resp.kind = "non_text" THEN "Unexpected response type from planner"
    ELSE IF ~HasJsonMatch(resp.text) THEN "ok"
    ELSE IF ~JsonParses(JsonMatch(resp.text)) THEN "syntax_error"
    ELSE IF resp.queries = -1 THEN "type_error"
    ELSE "ok"

\* try-block of runPlanningStage: "ok" or the message of the error thrown
PlanOutcome(resp) ==
    IF resp.kind = "api_error" THEN "api_error"
    ELSE IF resp.kind = "no_content" THEN "type_error"
    ELSE IF resp.kind = "non_text" THEN "Unexpected response type from planner"
    ELSE IF ~HasJsonMatch(resp.text) THEN "Could not parse search plan from response"
    ELSE IF ~JsonParses(JsonMatch(resp.text)) THEN "syntax_error"
    ELSE IF resp.queries = -1 THEN "type_error"
    ELSE "ok"

(***************************************************************************)
(* Search adapter (exa-client): never throws, failures are tagged results. *)
(* The argument is what the Exa SDK call does: "throw" or the result list. *)
(***************************************************************************)
ExaOutcomes ==
    [ok : {FALSE}, results : {<<>>}] \cup [ok : {TRUE}, results : SeqUpTo(Urls, MaxResults)]

\* searchWeb without its try/catch: the Exa error reaches the caller
searchWebRethrows(exa) ==
    IF ~exa.ok
    THEN [threw |-> TRUE, success |-> FALSE, results |-> <<>>]
    ELSE [threw |-> FALSE, success |-> TRUE, results |-> exa.results]

searchWeb(exa) ==
    IF ~exa.ok
    THEN [threw |-> FALSE, success |-> FALSE, results |-> <<>>]
    ELSE [threw |-> FALSE, success |-> TRUE, results |-> exa.results]

\* getContents without its try/catch: the Exa error reaches the caller
getContentsRethrows(exa) ==
    IF ~exa.ok
    THEN [threw |-> TRUE, success |-> FALSE, contents |-> <<>>]
    ELSE [threw |-> FALSE, success |-> TRUE, contents |-> exa.results]

getContents(exa) ==
    IF ~exa.ok
    THEN [threw |-> FALSE, success |-> FALSE, contents |-> <<>>]
    ELSE [threw |-> FALSE, success |-> TRUE, contents |-> exa.results]

(***************************************************************************)
(* runSearchStage: the inner loop over one search result list.             *)
(* The state of the loop is <<sources, seenUrls, emitted source events>>.  *)
(***************************************************************************)
NewSource(url) == [url |-> url, snippet |-> ""]

\* the result loop without the seenUrls test
RECURSIVE AddResultsNoDedup(_, _, _, _, _)
AddResultsNoDedup(results, p, srcs, seen, evs) ==
    IF p > Len(results) THEN [sources |-> srcs, seen |-> seen, events |-> evs]
    ELSE AddResultsNoDedup(results, p + 1, Append(srcs, NewSource(results[p])),
                           seen \cup {results[p]},
                           Append(evs, SourceEvent(NewSource(results[p]))))

RECURSIVE AddResults(_, _, _, _, _)
AddResults(results, p, srcs, seen, evs) ==
    IF p > Len(results) THEN [sources |-> srcs, seen |-> seen, events |-> evs]
    ELSE IF results[p] \notin seen
    THEN AddResults(results, p + 1, Append(srcs, NewSource(results[p])),
                    seen \cup {results[p]},
                    Append(evs, SourceEvent(NewSource(results[p]))))
    ELSE AddResults(results, p + 1, srcs, seen, evs)

\* sources.slice(0, 8).map(s => s.url)
TopUrls(srcs) ==
    [p \in 1..(IF Len(srcs) < TopSources THEN Len(srcs) ELSE TopSources) |-> srcs[p].url]

\* sources.find(s => s.url === content.url): index of the first match, 0 if none
FindSource(srcs, url) ==
    IF \E p \in 1..Len(srcs) : srcs[p].url = url
    THEN Min({p \in 1..Len(srcs) : srcs[p].url = url})
    ELSE 0

\* the loop over contentResult.contents with a push of the enriched source
\* in place of the assignment to the source found
RECURSIVE AddContentsPushes(_, _, _, _)
AddContentsPushes(cts, p, srcs, texts) ==
    IF p > Len(cts) THEN [sources |-> srcs, contents |-> texts]
    ELSE LET f == FindSource(srcs, cts[p])
         IN AddContentsPushes(cts, p + 1,
                IF f = 0 THEN srcs
                ELSE Append(srcs, [url |-> cts[p], snippet |-> "snippet"]),
                Append(texts, cts[p]))

\* the loop over contentResult.contents: push the text, set the snippet
RECURSIVE AddContents(_, _, _, _)
AddContents(cts, p, srcs, texts) ==
    IF p > Len(cts) THEN [sources |-> srcs, contents |-> texts]
    ELSE LET f == FindSource(srcs, cts[p])
         IN AddContents(cts, p + 1,
                IF f = 0 THEN srcs ELSE [srcs EXCEPT ![f].snippet = "snippet"],
                Append(texts, cts[p]))

(***************************************************************************)
(* main() of the research script (generateResearchScript), run with the    *)
(* outcomes of the capability calls that runResearchPipeline gets.  Both   *)
(* take the same branches up to their first failure, so the script's loop  *)
(* index, plan, sources and seenUrls are those of the pipeline.            *)
(* A run of the script is <<lines written to stdout, exit code>>.          *)
(***************************************************************************)
Running(lines) == [out |-> lines, exit |-> -1]

Exited(lines, code) == [out |-> lines, exit |-> code]

\* main().catch: emit({type: 'error', data: {message}}), process.exit(1)
MainCatch(lines, msg) ==
    Exited(Append(lines, ScriptMsg("error", "undefined", "", msg, 0)), 1)

\* the script up to the Planner's LLM call
ScriptStart ==
    Running(<<ScriptMsg("stage_change", "planning", "active", "Analyzing research topic", 0),
              ScriptMsg("status", "planning", "", "Creating search strategy...", 0)>>)

\* planResponse.content[0].text, match, JSON.parse, plan.queries.length:
\* "ok", "no_match", or the message of the error thrown
ScriptPlanOutcome(resp) ==
    IF resp.kind = "api_error" THEN "api_error"
    ELSE IF resp.kind \in {"no_content", "non_text"} THEN "type_error"
    ELSE IF ~HasJsonMatch(resp.text) THEN "no_match"
    ELSE IF ~JsonParses(JsonMatch(resp.text)) THEN "syntax_error"
    ELSE IF resp.queries = -1 THEN "type_error"
    ELSE "ok"

\* the result loop of the script: the source lines it writes
RECURSIVE ScriptAddResults(_, _, _, _)
ScriptAddResults(results, p, seen, lines) ==
    IF p > Len(results) THEN lines
    ELSE IF results[p] \notin seen
    THEN ScriptAddResults(results, p + 1, seen \cup {results[p]},
                          Append(lines, ScriptMsg("source", "", "", "", results[p])))
    ELSE ScriptAddResults(results, p + 1, seen, lines)

\* end of stage 2, then stage 3 up to the Writer's LLM call
ScriptSearchDone(lines) ==
    Running(lines \o
        <<ScriptMsg("status", "searching", "", "Gathered content", 0),
          ScriptMsg("stage_change", "searching", "completed", "Collected sources", 0),
          ScriptMsg("stage_change", "writing", "active", "Synthesizing research findings", 0),
          ScriptMsg("status", "writing", "", "Generating comprehensive report...", 0)>>)

\* after the search loop: fetch the content of the top sources, if any
ScriptAfterLoop(lines, srcs) ==
    LET l1 == Append(lines, ScriptMsg("status", "searching", "",
                                      "Found unique sources, fetching content...", 0))
    IN IF Len(TopUrls(srcs)) > 0 THEN Running(l1) ELSE ScriptSearchDone(l1)

\* head of the search loop for index idx, up to the searchWeb call
ScriptLoopHead(lines, idx, pl, srcs) ==
    IF idx < pl.nq
    THEN IF pl.ntypes = -1
         THEN MainCatch(lines, "type_error")   \* plan.searchTypes[i] of undefined
         ELSE Running(Append(lines, ScriptMsg("status", "searching", "", "Searching", 0)))
    ELSE ScriptAfterLoop(lines, srcs)

\* the Planner's LLM call answers
ScriptAfterPlanner(lines, resp, srcs) ==
    LET o == ScriptPlanOutcome(resp)
    IN IF o = "no_match"
       THEN Exited(Append(lines, ScriptMsg("error", "planning", "",
                                           "Could not parse search plan", 0)), 1)
       ELSE IF o # "ok" THEN MainCatch(lines, o)
       ELSE ScriptLoopHead(lines \o
              <<ScriptMsg("status", "planning", "", "Generated search queries", 0),
                ScriptMsg("stage_change", "planning", "completed", "Search strategy ready", 0),
                ScriptMsg("stage_change", "searching", "active", "Starting web searches", 0)>>,
              0, [nq |-> resp.queries, ntypes |-> resp.types], srcs)

\* a searchWeb call of the script answers
ScriptAfterSearch(lines, exa, idx, pl, srcs, seen) ==
    LET r == searchWeb(exa)
    IN IF r.success
       THEN ScriptLoopHead(ScriptAddResults(r.results, 1, seen, lines), idx + 1, pl,
                           AddResults(r.results, 1, srcs, seen, <<>>).sources)
       ELSE ScriptLoopHead(lines, idx + 1, pl, srcs)

\* writeResponse.content[0].text: "undefined" when the block has no text
ScriptReport(resp) == IF resp.kind = "text" THEN resp.text ELSE "undefined"

\* the Writer's LLM call answers: the rest of main
ScriptAfterWriter(lines, resp) ==
    IF resp.kind = "api_error" THEN MainCatch(lines, "api_error")
    ELSE IF resp.kind = "no_content" THEN MainCatch(lines, "type_error")
    ELSE Exited(lines \o
           <<ScriptMsg("status", "writing", "", "Report generation complete", 0),
             ScriptMsg("stage_change", "writing", "completed", "Report ready", 0),
             ScriptMsg("stage_change", "completed", "completed", "Research complete", 0),
             ScriptMsg("result", "", "", ScriptReport(resp), 0)>>, 0)

\* the script's run goes on to r
ScriptBecomes(r) ==
    /\ scriptOut' = r.out
    /\ scriptExit' = r.exit

(***************************************************************************)
(* The hook useResearchAgent (src/hooks/use-research-agent.ts): its state, *)
(* the messages it reads from the event stream, handleMessage.             *)
(***************************************************************************)
MaxCalls == 2
MaxReceived == 2

\* stageOrder of handleMessage
stageOrder == <<"orchestrator", "planner", "web-search", "report-writer">>

ClientStageNames == {stageOrder[k] : k \in 1..Len(stageOrder)}

\* stageOrder.indexOf(stage), from 1
IndexOf(stage) == CHOOSE k \in 1..Len(stageOrder) : stageOrder[k] = stage

INITIAL_STAGES == [s \in ClientStageNames |-> "pending"]

\* reportRef.current.length < 500
ReportThreshold == 500

\* the results array of one tool result
ToolResultLists == {<<"a">>, <<"b">>, <<"a", "a">>, <<"a", "b">>}

\* the text of an assistant block: a report of 500 characters under a
\* markdown heading, one character of other text, orchestrator commentary
AssistantTexts == {"heading", "plain", "commentary"}

TextLength(text) == IF text = "heading" THEN ReportThreshold ELSE 1

ClientLine(kind, stage, text, urls) ==
    [kind |-> kind, stage |-> stage, text |-> text, urls |-> urls]

\* the state of the hook as one record
Hook ==
    [status |-> clientStatus, stage |-> clientStage, stages |-> clientStages,
     sources |-> clientSources, report |-> clientReport, error |-> clientError,
     reportRef |-> reportRef, capturing |-> isCapturingReportRef]

SetHook(h) ==
    /\ clientStatus' = h.status
    /\ clientStage' = h.stage
    /\ clientStages' = h.stages
    /\ clientSources' = h.sources
    /\ clientReport' = h.report
    /\ clientError' = h.error
    /\ reportRef' = h.reportRef
    /\ isCapturingReportRef' = h.capturing

\* resetState
resetState(h) ==
    [h EXCEPT !.stages = INITIAL_STAGES, !.sources = <<>>, !.report = "null",
              !.error = "null", !.stage = "null", !.reportRef = 0, !.capturing = FALSE]

\* the updater of setStages in the stage_change branch
StagesAfter(stages, stage) ==
    [s \in ClientStageNames |->
        IF IndexOf(s) < IndexOf(stage) THEN "completed"
        ELSE IF IndexOf(s) = IndexOf(stage) THEN "active"
        ELSE stages[s]]

\* extractSources: the updater of setSources (the set of URLs is built from
\* the previous list once, before the new items are filtered)
NotIn(prev, url) == \A p \in 1..Len(prev) : prev[p] # url

extractSources(prev, items) ==
    prev \o SelectSeq(items, LAMBDA url : NotIn(prev, url))

\* the assistant branch for one text block
CaptureText(h, text) ==
    LET isReportContent == h.capturing \/ text = "heading"
    IN IF isReportContent /\ text # "commentary"
       THEN [h EXCEPT !.reportRef = h.reportRef + TextLength(text), !.report = "captured"]
       ELSE h

handleMessage(h, line) ==
    IF line.kind = "stage_change"
    THEN [h EXCEPT !.stage = line.stage,
                   !.capturing = (h.capturing \/ line.stage = "report-writer"),
                   !.reportRef = IF line.stage = "report-writer" THEN 0 ELSE h.reportRef,
                   !.stages = StagesAfter(h.stages, line.stage)]
    ELSE IF line.kind = "status" THEN h
    ELSE IF line.kind = "result" /\ line.text # ""
    THEN IF h.reportRef < ReportThreshold THEN [h EXCEPT !.report = "result"] ELSE h
    ELSE IF line.kind = "error" THEN [h EXCEPT !.error = "set", !.status = "error"]
    ELSE IF line.kind = "assistant" THEN CaptureText(h, line.text)
    ELSE IF line.kind = "user"
    THEN [h EXCEPT !.sources = extractSources(h.sources, line.urls)]
    ELSE h

\* one data line of the read loop: the sentinel, or a message for handleMessage
HandleLine(h, line) ==
    IF line.kind = "done" THEN [h EXCEPT !.status = "completed"]
    ELSE handleMessage(h, line)

\* after the read loop
MarkCompletion(h) ==
    [h EXCEPT !.status = "completed", !.stages["report-writer"] = "completed"]

\* the catch block of startResearch without the test for AbortError
CatchAll(h, err) == [h EXCEPT !.error = "set", !.status = "error"]

\* the catch block of startResearch
Catch(h, err) ==
    IF err = "AbortError" THEN [h EXCEPT !.status = "idle"]
    ELSE [h EXCEPT !.error = "set", !.status = "error"]

NoCall == [pos |-> "unused", aborted |-> FALSE, got |-> 0]

ClientInit ==
    /\ clientStatus = "idle"
    /\ clientStage = "null"
    /\ clientStages = INITIAL_STAGES
    /\ clientSources = <<>>
    /\ clientReport = "null"
    /\ clientError = "null"
    /\ reportRef = 0
    /\ isCapturingReportRef = FALSE
    /\ abortControllerRef = 0
    /\ calls = [c \in 1..MaxCalls |-> NoCall]

PipelineInit ==
    /\ pc = "start"
    /\ events = <<>>
    /\ plan = NoPlan
    /\ i = 0
    /\ sources = <<>>
    /\ seenUrls = {}
    /\ contents = <<>>
    /\ result = NoResult
    /\ returnedUrls = {}
    /\ searchFailed = FALSE
    /\ contentsFailed = FALSE
    /\ noJsonObject = FALSE
    /\ dupReturned = FALSE
    /\ scriptOut = <<>>
    /\ scriptExit = -1

\* the state before the request arrives
RouteInit ==
    /\ rpc = "idle"
    /\ response = [status |-> 0, stream |-> FALSE]
    /\ mode = "local"
    /\ out = <<>>
    /\ currentStage = "null"
    /\ closeCount = 0
    /\ sandbox = "null"
    /\ stdoutBuf = <<>>
    /\ produced = 0
    /\ blocksUsed = 0
    /\ sdkDone = FALSE
    /\ request = [json |-> FALSE, kind |-> "null", topic |-> <<>>]
    /\ cancelled = FALSE
    /\ emitted = <<>>

NoSandboxResult == [threw |-> FALSE, success |-> FALSE, report |-> "", error |-> ""]

SandboxInit ==
    /\ vpc = "start"
    /\ vsandbox = "null"
    /\ vcalls = <<>>
    /\ vresult = NoSandboxResult
    /\ installed = "none"
    /\ scriptRan = FALSE
    /\ afterAbort = 0

\* no variable of the process environment is defined
NoEnv == [name \in EnvNames |-> "undefined"]

EnvInit ==
    /\ processEnv = NoEnv
    /\ decided = "none"

Init == PipelineInit /\ RouteInit /\ SandboxInit /\ EnvInit /\ ClientInit

\* runResearchPipeline up to the Planner's LLM call
StartPipeline ==
    /\ pc = "start"
    /\ events' = <<StageChange("planning", "active", "Analyzing research topic"),
                   StatusEvent("Creating search strategy...", "planning")>>
    /\ pc' = "plan_await"
    /\ ScriptBecomes(ScriptStart)
    /\ UNCHANGED <<plan, i, sources, seenUrls, contents, result,
                   returnedUrls, searchFailed, contentsFailed, noJsonObject, dupReturned>>
    /\ UNCHANGED <<ovars, rvars, svars, gvars>>

\* catch of runSearchStage, then runResearchPipeline returns (allSources is still empty)
SearchCatch(ev, msg) ==
    /\ events' = ev \o <<StageChange("searching", "error", msg),
                         ErrorEvent(msg, "searching")>>
    /\ result' = [success |-> FALSE, report |-> "", sources |-> <<>>,
                  error |-> "Search stage failed"]
    /\ pc' = "done"

\* end of runSearchStage, then runWritingStage up to the Writer's LLM call
SearchDone(ev, srcs, texts) ==
    /\ events' = ev \o <<StatusEvent("Gathered content", "searching"),
                         StageChange("searching", "completed", "Collected sources"),
                         StageChange("writing", "active", "Synthesizing research findings"),
                         StatusEvent("Generating comprehensive report...", "writing")>>
    /\ result' = result
    /\ pc' = "write_await"

\* after the search loop: fetch the content of the top sources, if any
AfterLoop(ev, srcs) ==
    LET ev1 == Append(ev, StatusEvent("Found unique sources, fetching content...", "searching"))
    IN IF Len(TopUrls(srcs)) > 0
       THEN /\ events' = ev1
            /\ result' = result
            /\ pc' = "contents_await"
       ELSE SearchDone(ev1, srcs, <<>>)

\* head of the search loop for index idx, up to the searchWeb call
LoopHead(ev, idx, pl, srcs) ==
    IF idx < pl.nq
    THEN IF pl.ntypes = -1
         THEN /\ SearchCatch(ev, "type_error")   \* plan.searchTypes[i] of undefined
              /\ i' = i
         ELSE /\ events' = Append(ev, StatusEvent("Searching", "searching"))
              /\ result' = result
              /\ pc' = "search_await"
              /\ i' = idx
    ELSE /\ AfterLoop(ev, srcs)
         /\ i' = idx

\* runResearchPipeline without the return after a failed planning stage:
\* runSearchStage starts, and plan.queries of null throws inside its try
PlanningFailedNoReturn(ev, msg) ==
    /\ events' = ev \o <<StageChange("planning", "error", msg),
                         ErrorEvent(msg, "planning"),
                         StageChange("searching", "active", "Starting web searches"),
                         StageChange("searching", "error", "type_error"),
                         ErrorEvent("type_error", "searching")>>
    /\ result' = [success |-> FALSE, report |-> "", sources |-> <<>>,
                  error |-> "Search stage failed"]
    /\ pc' = "done"

\* catch of runPlanningStage (it returns null), then if (!plan) return
PlanningFailed(ev, msg) ==
    /\ events' = ev \o <<StageChange("planning", "error", msg),
                         ErrorEvent(msg, "planning")>>
    /\ result' = [success |-> FALSE, report |-> "", sources |-> <<>>,
                  error |-> "Planning stage failed"]
    /\ pc' = "done"

\* the response holds a region that is a JSON object
HoldsJsonObject(text) ==
    \E a \in 1..Len(text) : \E b \in a..Len(text) : JsonParses(SubSeq(text, a, b))

\* the Planner's LLM call answers: rest of runPlanningStage, then runSearchStage
\* up to its first capability call
PlannerResponds ==
    /\ pc = "plan_await"
    /\ \E resp \in PlannerResponses :
         LET msg == PlanOutcome(resp)
         IN /\ noJsonObject' = (resp.kind = "text" /\ ~HoldsJsonObject(resp.text))
            /\ ScriptBecomes(ScriptAfterPlanner(scriptOut, resp, sources))
            /\ IF msg # "ok"
               THEN /\ PlanningFailed(events, msg)
                    /\ UNCHANGED <<plan, i>>
               ELSE /\ plan' = [nq |-> resp.queries, ntypes |-> resp.types]
                    /\ LoopHead(events \o
                         <<StatusEvent("Generated search queries", "planning"),
                           StageChange("planning", "completed", "Search strategy ready"),
                           StageChange("searching", "active", "Starting web searches")>>,
                         0, plan', sources)
    /\ UNCHANGED <<sources, seenUrls, contents, returnedUrls, searchFailed, contentsFailed,
                   dupReturned>>
    /\ UNCHANGED <<ovars, rvars, svars, gvars>>

\* a searchWeb call answers: rest of the loop body, then the next iteration
SearchResponds ==
    /\ pc = "search_await"
    /\ \E exa \in ExaOutcomes :
         LET r == searchWeb(exa)
         IN /\ searchFailed' = (searchFailed \/ ~exa.ok)
            /\ ScriptBecomes(ScriptAfterSearch(scriptOut, exa, i, plan, sources, seenUrls))
            /\ IF r.threw
               THEN /\ SearchCatch(events, "search_error")
                    /\ UNCHANGED <<i, sources, seenUrls, returnedUrls, dupReturned>>
               ELSE IF r.success
               THEN LET a == AddResults(r.results, 1, sources, seenUrls, <<>>)
                    IN /\ sources' = a.sources
                       /\ seenUrls' = a.seen
                       /\ returnedUrls' = returnedUrls \cup {r.results[p] : p \in 1..Len(r.results)}
                       /\ dupReturned' = (dupReturned \/
                             \E p \in 1..Len(r.results) : r.results[p] \in returnedUrls)
                       /\ LoopHead(events \o a.events, i + 1, plan, a.sources)
               ELSE /\ UNCHANGED <<sources, seenUrls, returnedUrls, dupReturned>>
                    /\ LoopHead(events, i + 1, plan, sources)
    /\ UNCHANGED <<plan, contents, contentsFailed, noJsonObject>>
    /\ UNCHANGED <<ovars, rvars, svars, gvars>>

\* the getContents call answers: rest of runSearchStage, then runWritingStage
\* up to the Writer's LLM call
ContentsResponds ==
    /\ pc = "contents_await"
    /\ \E exa \in ExaOutcomes :
         LET r == getContents(exa)
         IN /\ contentsFailed' = (contentsFailed \/ ~exa.ok)
            /\ ScriptBecomes(ScriptSearchDone(scriptOut))
            /\ IF r.threw
               THEN /\ SearchCatch(events, "contents_error")
                    /\ UNCHANGED <<sources, contents>>
               ELSE IF r.success
               THEN LET a == AddContents(r.contents, 1, sources, contents)
                    IN /\ sources' = a.sources
                       /\ contents' = a.contents
                       /\ SearchDone(events, a.sources, a.contents)
               ELSE /\ UNCHANGED <<sources, contents>>
                    /\ SearchDone(events, sources, contents)
    /\ UNCHANGED <<plan, i, seenUrls, returnedUrls, searchFailed, noJsonObject, dupReturned>>
    /\ UNCHANGED <<ovars, rvars, svars, gvars>>

(***************************************************************************)
(* The Writer's LLM response: the call fails, or content[0] is missing, or *)
(* it is not a text block, or it is a text block (possibly empty).         *)
(***************************************************************************)
WriterResponses ==
    [kind : {"api_error", "no_content", "non_text"}, text : {""}]
    \cup [kind : {"text"}, text : {"", "report"}]

WriteOutcome(resp) ==
    IF resp.kind = "api_error" THEN "api_error"
    ELSE IF resp.kind = "no_content" THEN "type_error"
    ELSE IF resp.kind = "non_text" THEN "Unexpected response type from report writer"
    ELSE "ok"

\* if (!report) of runResearchPipeline: null and the empty string are falsy
Falsy(report) == report = ""

\* a pipeline that reports the falsy report as an error of the writing stage
FinishPipelineReportsError(ev, report, srcs) ==
    IF Falsy(report)
    THEN /\ events' = ev \o <<StageChange("writing", "error", "Report writing failed"),
                              ErrorEvent("Report writing failed", "writing")>>
         /\ result' = [success |-> FALSE, report |-> "", sources |-> srcs,
                       error |-> "Report writing stage failed"]
    ELSE /\ events' = Append(ev, StageChange("completed", "completed", "Research complete"))
         /\ result' = [success |-> TRUE, report |-> report, sources |-> srcs, error |-> ""]

\* runResearchPipeline after runWritingStage returned the text of the report
FinishPipeline(ev, report, srcs) ==
    IF Falsy(report)
    THEN /\ events' = ev
         /\ result' = [success |-> FALSE, report |-> "", sources |-> srcs,
                       error |-> "Report writing stage failed"]
    ELSE /\ events' = Append(ev, StageChange("completed", "completed", "Research complete"))
         /\ result' = [success |-> TRUE, report |-> report, sources |-> srcs, error |-> ""]

\* the Writer's LLM call answers: rest of runWritingStage and of runResearchPipeline
WriterResponds ==
    /\ pc = "write_await"
    /\ \E resp \in WriterResponses :
         LET msg == WriteOutcome(resp)
         IN /\ ScriptBecomes(ScriptAfterWriter(scriptOut, resp))
            /\ IF msg # "ok"
               THEN /\ events' = events \o <<StageChange("writing", "error", msg),
                                               ErrorEvent(msg, "writing")>>
                    /\ result' = [success |-> FALSE, report |-> "", sources |-> sources,
                                  error |-> "Report writing stage failed"]
               ELSE FinishPipeline(
                        events \o <<StatusEvent("Report generation complete", "writing"),
                                    StageChange("writing", "completed", "Report ready")>>,
                        resp.text, sources)
    /\ pc' = "done"
    /\ UNCHANGED <<plan, i, sources, seenUrls, contents,
                   returnedUrls, searchFailed, contentsFailed, noJsonObject, dupReturned>>
    /\ UNCHANGED <<ovars, rvars, svars, gvars>>

Next ==
    \/ StartPipeline
    \/ PlannerResponds
    \/ SearchResponds
    \/ ContentsResponds
    \/ WriterResponds

Spec == Init /\ [][Next]_vars

(***************************************************************************)
(* RouteSpec : the research API route, src/app/api/research/route.ts       *)
(* (POST, runResearchDirect, runResearchWithSandbox), over the generator   *)
(* runResearchInSandbox of src/lib/sandbox/runner.ts and the Agent SDK     *)
(* message stream of runResearchPipeline (agent orchestrator).             *)
(***************************************************************************)
MaxMessages == 2
MaxBlocks == 2
MaxTopicLen == 2

RouteStages == {"planner", "web-search", "report-writer"}

\* AGENT_STAGE_MAP[subagent_type], "none" when the key is absent
AGENT_STAGE_MAP(subagent) ==
    IF subagent = "planner-agent" THEN "planner"
    ELSE IF subagent = "web-search-agent" THEN "web-search"
    ELSE IF subagent = "report-writer-agent" THEN "report-writer"
    ELSE "none"

(***************************************************************************)
(* Agent SDK messages.  A content block is a text block, whose tag is the  *)
(* stage its "STAGE: ..." marker names ("none": no marker), or a Task      *)
(* tool_use block, whose tag is its subagent_type.                         *)
(***************************************************************************)
Blocks ==
    [kind : {"text"}, tag : RouteStages \cup {"none"}]
    \cup
    [kind : {"tool_use"},
     tag : {"planner-agent", "web-search-agent", "report-writer-agent", "other-agent"}]

NoMsg == [id |-> 0, type |-> "none", blocks |-> <<>>]

\* the messages the SDK may yield as its n-th message with at most b blocks
SdkMessages(n, b) ==
    [id : {n}, type : {"assistant"}, blocks : SeqUpTo(Blocks, b)]
    \cup [id : {n}, type : {"user", "system", "result"}, blocks : {<<>>}]

\* detectStageChange(text): the first pattern of stagePatterns that matches
\* anywhere in the text; a text is the sequence of the markers it holds
DetectStageChange(text) ==
    LET marks == {text[p] : p \in 1..Len(text)}
    IN IF "planner" \in marks THEN "planner"
       ELSE IF "web-search" \in marks THEN "web-search"
       ELSE IF "report-writer" \in marks THEN "report-writer"
       ELSE "none"

IsTextBlock(b) == b.kind = "text"

IsTaskBlock(b) == b.kind = "tool_use"

\* extractTextFromMessage: the text blocks, joined
ExtractText(msg) ==
    LET tb == SelectSeq(msg.blocks, IsTextBlock)
    IN [p \in 1..Len(tb) |-> tb[p].tag]

\* getSubagentCall: the subagent_type of the first Task block, "none" if no Task block
GetSubagentCall(msg) ==
    LET tb == SelectSeq(msg.blocks, IsTaskBlock)
    IN IF Len(tb) = 0 THEN "none" ELSE tb[1].tag

(***************************************************************************)
(* Lines written to the response stream (controller.enqueue).              *)
(***************************************************************************)
Line(kind, stage, text, msg) == [kind |-> kind, stage |-> stage, text |-> text, msg |-> msg]

StageChangeLine(stage) == Line("stage_change", stage, "", NoMsg)

StatusLine(text) == Line("status", "", text, NoMsg)

ErrorLine(text) == Line("error", "", text, NoMsg)

MessageLine(msg) == Line("message", "", "", msg)

DoneLine == Line("done", "", "[DONE]", NoMsg)

\* the "type" member of the JSON object a line carries ("none": the sentinel)
LineType(line) ==
    IF line.kind = "message" THEN line.msg.type
    ELSE IF line.kind = "done" THEN "none"
    ELSE line.kind

\* the top-level members of the JSON object a line carries
LineKeys(line) ==
    IF line.kind = "stage_change" THEN {"type", "stage", "timestamp", "description"}
    ELSE IF line.kind \in {"status", "error"} THEN {"type", "content"}
    ELSE IF line.kind = "message"
    THEN IF line.msg.type \in {"assistant", "user"} THEN {"type", "message"}
         ELSE IF line.msg.type = "result" THEN {"type", "result"}
         ELSE {"type"}
    ELSE {}

\* the writer's state: st.out is the stream so far, st.cs is currentStage
EmitStageChange(st, stage) ==
    IF stage # st.cs
    THEN [out |-> Append(st.out, StageChangeLine(stage)), cs |-> stage]
    ELSE st

Write(st, line) == [out |-> Append(st.out, line), cs |-> st.cs]

\* runResearchDirect: the body of the loop over the SDK's messages
ProcessDirectMessage(st, msg) ==
    LET text == ExtractText(msg)
        st1 == IF msg.type = "assistant" /\ Len(text) > 0
                  /\ DetectStageChange(text) # "none"
               THEN EmitStageChange(st, DetectStageChange(text))
               ELSE st
        sub == GetSubagentCall(msg)
        st2 == IF msg.type = "assistant" /\ sub # "none"
                  /\ AGENT_STAGE_MAP(sub) # "none"
               THEN EmitStageChange(st1, AGENT_STAGE_MAP(sub))
               ELSE st1
    IN Write(st2, MessageLine(msg))

(***************************************************************************)
(* Sandbox messages (SandboxMessage) and the lines of the script's stdout. *)
(***************************************************************************)
SandboxMsg(type, text, msg) == [type |-> type, text |-> text, msg |-> msg]

StdoutLine(prefix, msg) == [prefix |-> prefix, msg |-> msg]

\* processLine of runResearchInSandbox: the message handed to onMessage, as a
\* sequence of zero or one message
ProcessLine(line) ==
    IF line.prefix = "__RESEARCH_MSG__" THEN <<SandboxMsg("result", "", line.msg)>>
    ELSE IF line.prefix = "__RESEARCH_DONE__"
    THEN <<SandboxMsg("status", "Research complete", NoMsg)>>
    ELSE IF line.prefix = "__RESEARCH_ERROR__" THEN <<SandboxMsg("error", "script", NoMsg)>>
    ELSE IF line.prefix = "plain" THEN <<SandboxMsg("stdout", "plain", NoMsg)>>
    ELSE <<>>

RECURSIVE ProcessLines(_, _)
ProcessLines(lines, p) ==
    IF p > Len(lines) THEN <<>>
    ELSE ProcessLine(lines[p]) \o ProcessLines(lines, p + 1)

\* the loop over message.message.content of processSandboxMessage
RECURSIVE ProcessBlocks(_, _, _)
ProcessBlocks(st, blocks, p) ==
    IF p > Len(blocks) THEN st
    ELSE LET b == blocks[p]
             stage == IF b.kind = "text" THEN DetectStageChange(<<b.tag>>)
                      ELSE AGENT_STAGE_MAP(b.tag)
         IN ProcessBlocks(IF stage # "none" THEN EmitStageChange(st, stage) ELSE st,
                          blocks, p + 1)

\* processSandboxMessage of runResearchWithSandbox
ProcessSandboxMessage(st, m) ==
    IF m.type = "status" THEN Write(st, StatusLine(m.text))
    ELSE IF m.type = "result"
    THEN Write(IF m.msg.type = "assistant" THEN ProcessBlocks(st, m.msg.blocks, 1) ELSE st,
               MessageLine(m.msg))
    ELSE IF m.type = "error" THEN Write(st, ErrorLine(m.text))
    ELSE st

\* while (messageQueue.length > 0) processSandboxMessage(messageQueue.shift())
RECURSIVE Drain(_, _, _)
Drain(st, queue, p) ==
    IF p > Len(queue) THEN st
    ELSE Drain(ProcessSandboxMessage(st, queue[p]), queue, p + 1)

\* a loop body that writes the yielded message before the queued ones
OnYieldBeforeQueue(st, queue, m) == Drain(ProcessSandboxMessage(st, m), queue, 1)

\* the body of the for-await loop for one yielded message: the queue first
OnYield(st, queue, m) == ProcessSandboxMessage(Drain(st, queue, 1), m)

RECURSIVE OnYields(_, _, _)
OnYields(st, ms, p) ==
    IF p > Len(ms) THEN st ELSE OnYields(OnYield(st, <<>>, ms[p]), ms, p + 1)

(***************************************************************************)
(* The request and the process environment.                                *)
(***************************************************************************)
Chars == {" ", "a"}

Requests ==
    [json : {FALSE}, kind : {"none"}, topic : {<<>>}]
    \cup [json : {TRUE}, kind : {"missing", "number"}, topic : {<<>>}]
    \cup [json : {TRUE}, kind : {"string"}, topic : SeqUpTo(Chars, MaxTopicLen)]

Envs == [ANTHROPIC_API_KEY : BOOLEAN, EXA_API_KEY : BOOLEAN, VERCEL : BOOLEAN,
         VERCEL_ENV : BOOLEAN, VERCEL_TOKEN : BOOLEAN, VERCEL_PROJECT_ID : BOOLEAN]

isVercelEnvironment(env) == env.VERCEL \/ env.VERCEL_ENV

isSandboxConfigured(env) == env.VERCEL_TOKEN /\ env.VERCEL_PROJECT_ID

\* getExecutionMode with one of the two tests being enough
getExecutionModeEither(env) ==
    IF isVercelEnvironment(env) \/ isSandboxConfigured(env) THEN "sandbox" ELSE "local"

getExecutionMode(env) ==
    IF isVercelEnvironment(env) /\ isSandboxConfigured(env) THEN "sandbox" ELSE "local"

\* !topic || typeof topic !== "string"
TopicRejected(req) == req.kind # "string" \/ Len(req.topic) = 0

(***************************************************************************)
(* State of one request to POST /research.                                 *)
(***************************************************************************)
NoRequest == [json |-> FALSE, kind |-> "null", topic |-> <<>>]

\* the writer's state of the request
St == [out |-> out, cs |-> currentStage]

\* a response without a stream
Respond(status) ==
    /\ response' = [status |-> status, stream |-> FALSE]
    /\ rpc' = "responded"
    /\ UNCHANGED <<mode, out, currentStage, closeCount, sandbox, emitted>>

\* the client has cancelled the stream: controller.enqueue throws, in the try
\* block and again in the catch block of the stream's start, which rejects
Aborted(st) ==
    /\ out' = st.out
    /\ currentStage' = st.cs
    /\ closeCount' = closeCount
    /\ rpc' = "aborted"

\* the stream's start without the close() of its catch block
StreamCatchNoClose(st, msg) ==
    /\ out' = Append(st.out, ErrorLine(msg))
    /\ currentStage' = st.cs
    /\ closeCount' = closeCount
    /\ rpc' = "failed"

\* catch block of the stream's start: the error event, then close()
StreamCatch(st, msg) ==
    IF cancelled THEN Aborted(st)
    ELSE /\ out' = Append(st.out, ErrorLine(msg))
         /\ currentStage' = st.cs
         /\ closeCount' = closeCount + 1
         /\ rpc' = "closed"

\* end of the try block of the stream's start: the sentinel, then close()
FinishStream(st) ==
    IF cancelled THEN Aborted(st)
    ELSE /\ out' = Append(st.out, DoneLine)
         /\ currentStage' = st.cs
         /\ closeCount' = closeCount + 1
         /\ rpc' = "closed"

\* the stream stays open: the generator waits for the sandbox at suspension point p
Suspend(st, p) ==
    /\ out' = st.out
    /\ currentStage' = st.cs
    /\ closeCount' = closeCount
    /\ rpc' = p

\* the route's for-await loop over the messages one run of the generator
\* produces: queued were handed to onMessage before the first of ys is yielded
Deliver(st, queued, ys) ==
    IF ys = <<>> THEN st
    ELSE OnYields(OnYield(st, queued, ys[1]), Tail(ys), 1)

\* the messages such a run produces, in the order it produces them; the run
\* ends at its first yield when the stream is cancelled
Log(queued, ys) ==
    IF cancelled /\ ys # <<>> THEN Append(queued, ys[1]) ELSE queued \o ys

\* GeneratorRuns without the finally block on the consumer's early end
GeneratorRunsNoFinally(sb, queued, ys, p) ==
    /\ emitted' = emitted \o Log(queued, ys)
    /\ IF cancelled /\ ys # <<>>
       THEN Aborted(St)
       ELSE IF p = "return" THEN FinishStream(Deliver(St, queued, ys))
       ELSE Suspend(Deliver(St, queued, ys), p)

\* one run of runResearchInSandbox from an await to its next await p, or to its
\* end ("return": there is no sandbox to stop).  sb is the sandbox after the
\* run.  When the stream is cancelled the loop body of the route throws at the
\* first yield: the generator is closed there and runs its finally block.
GeneratorRuns(sb, queued, ys, p) ==
    /\ emitted' = emitted \o Log(queued, ys)
    /\ IF cancelled /\ ys # <<>>
       THEN IF sb # "null" THEN Suspend(St, "stop_await") ELSE Aborted(St)
       ELSE IF p = "return" THEN FinishStream(Deliver(St, queued, ys))
       ELSE Suspend(Deliver(St, queued, ys), p)

\* runResearchWithSandbox and runResearchInSandbox up to Sandbox.create
StartSandbox(env) ==
    IF ~(env.ANTHROPIC_API_KEY /\ env.EXA_API_KEY)
    THEN /\ StreamCatch(St, "Missing required API keys")
         /\ emitted' = emitted
    ELSE IF ~(env.VERCEL_TOKEN /\ env.VERCEL_PROJECT_ID)
    THEN GeneratorRuns(sandbox, <<>>,
             <<SandboxMsg("status", "Creating sandbox environment...", NoMsg),
               SandboxMsg("error", "credentials", NoMsg)>>, "return")
    ELSE GeneratorRuns(sandbox, <<>>,
             <<SandboxMsg("status", "Creating sandbox environment...", NoMsg)>>,
             "create_await")

\* POST up to await request.json()
POST ==
    /\ rpc = "idle"
    /\ vpc = "start"
    /\ \E req \in Requests : request' = req
    /\ rpc' = "json_await"
    /\ UNCHANGED <<response, mode, out, currentStage, closeCount, sandbox, stdoutBuf,
                   produced, blocksUsed, sdkDone, cancelled, emitted>>
    /\ UNCHANGED <<ovars, pvars, svars, gvars>>

\* request.json() returns or throws: validation, configuration, then the
\* stream's start up to the first capability call of the execution backend
RequestJsonReturns ==
    /\ rpc = "json_await"
    /\ \E env \in Envs :
         IF ~request.json THEN Respond(500)
         ELSE IF TopicRejected(request) THEN Respond(400)
         ELSE IF ~env.ANTHROPIC_API_KEY THEN Respond(500)
         ELSE IF ~env.EXA_API_KEY THEN Respond(500)
         ELSE /\ response' = [status |-> 200, stream |-> TRUE]
              /\ mode' = getExecutionMode(env)
              /\ sandbox' = sandbox
              /\ IF getExecutionMode(env) = "sandbox"
                 THEN StartSandbox(env)
                 ELSE Suspend(St, "sdk_await") /\ emitted' = emitted
    /\ request' = NoRequest
    /\ UNCHANGED <<stdoutBuf, produced, blocksUsed, sdkDone, cancelled>>
    /\ UNCHANGED <<ovars, pvars, svars, gvars>>

(***************************************************************************)
(* Direct execution: the SDK's message stream ends after its result        *)
(* message, or fails.                                                      *)
(***************************************************************************)
SdkYields ==
    /\ rpc = "sdk_await"
    /\ ~sdkDone
    /\ produced < MaxMessages
    /\ \E msg \in SdkMessages(produced + 1, MaxBlocks - blocksUsed) :
         /\ IF cancelled THEN Aborted(St)
            ELSE Suspend(ProcessDirectMessage(St, msg), "sdk_await")
         /\ blocksUsed' = blocksUsed + Len(msg.blocks)
         /\ sdkDone' = (msg.type = "result")
    /\ produced' = produced + 1
    /\ afterAbort' = IF cancelled THEN afterAbort + 1 ELSE afterAbort
    /\ UNCHANGED <<response, mode, sandbox, stdoutBuf, request, cancelled, emitted>>
    /\ UNCHANGED <<cvars, evars, pvars, svars, gvars>>

SdkEnds ==
    /\ rpc = "sdk_await"
    /\ sdkDone
    /\ FinishStream(St)
    /\ UNCHANGED <<response, mode, sandbox, stdoutBuf, produced, blocksUsed, sdkDone,
                   request, cancelled, emitted>>
    /\ UNCHANGED <<ovars, pvars, svars, gvars>>

SdkThrows ==
    /\ rpc = "sdk_await"
    /\ StreamCatch(St, "sdk")
    /\ UNCHANGED <<response, mode, sandbox, stdoutBuf, produced, blocksUsed, sdkDone,
                   request, cancelled, emitted>>
    /\ UNCHANGED <<ovars, pvars, svars, gvars>>

(***************************************************************************)
(* Sandbox execution: runResearchInSandbox between its awaits.             *)
(***************************************************************************)
SandboxCreateReturns ==
    /\ rpc = "create_await"
    /\ \E ok \in BOOLEAN :
         IF ok
         THEN /\ sandbox' = "running"
              /\ GeneratorRuns("running", <<>>,
                     <<SandboxMsg("status", "Sandbox created, setting up project...", NoMsg),
                       SandboxMsg("status", "Writing project files...", NoMsg)>>,
                     "write_await")
         ELSE /\ sandbox' = sandbox
              /\ GeneratorRuns(sandbox, <<>>, <<SandboxMsg("error", "create", NoMsg)>>,
                               "return")
    /\ UNCHANGED <<response, mode, stdoutBuf, produced, blocksUsed, sdkDone,
                   request, cancelled>>
    /\ UNCHANGED <<ovars, pvars, svars, gvars>>

WriteFilesReturns ==
    /\ rpc = "write_await"
    /\ \E ok \in BOOLEAN :
         IF ok
         THEN GeneratorRuns(sandbox, <<>>,
                  <<SandboxMsg("status", "Installing dependencies...", NoMsg)>>,
                  "install_await")
         ELSE GeneratorRuns(sandbox, <<>>,
                  <<SandboxMsg("error", "Failed to write files", NoMsg)>>, "stop_await")
    /\ UNCHANGED <<response, mode, sandbox, stdoutBuf, produced, blocksUsed, sdkDone,
                   request, cancelled>>
    /\ UNCHANGED <<ovars, pvars, svars, gvars>>

InstallReturns ==
    /\ rpc = "install_await"
    /\ \E oc \in {"ok", "nonzero", "throw"} :
         /\ installed' = oc
         /\ IF oc = "ok"
            THEN GeneratorRuns(sandbox, <<>>,
                     <<SandboxMsg("status", "Dependencies installed, starting research...", NoMsg)>>,
                     "run_await")
            ELSE IF oc = "nonzero"
            THEN GeneratorRuns(sandbox, <<>>,
                     <<SandboxMsg("error", "npm install failed", NoMsg)>>, "stop_await")
            ELSE GeneratorRuns(sandbox, <<>>,
                     <<SandboxMsg("error", "install", NoMsg)>>, "stop_await")
    /\ UNCHANGED <<response, mode, sandbox, stdoutBuf, produced, blocksUsed, sdkDone,
                   request, cancelled>>
    /\ UNCHANGED <<ovars, pvars, svars, scriptRan>>

\* sandbox.runCommand({cmd: "node", detached: true}) returns or throws
ScriptStarts ==
    /\ rpc = "run_await"
    /\ \E ok \in BOOLEAN :
         /\ scriptRan' = ok
         /\ IF ok
            THEN GeneratorRuns(sandbox, <<>>, <<>>, "wait_await")
            ELSE GeneratorRuns(sandbox, <<>>, <<SandboxMsg("error", "run", NoMsg)>>,
                               "stop_await")
    /\ UNCHANGED <<response, mode, sandbox, stdoutBuf, produced, blocksUsed, sdkDone,
                   request, cancelled>>
    /\ UNCHANGED <<ovars, pvars, svars, installed>>

\* the script in the sandbox prints one line: an SDK message or a log line
ScriptPrints ==
    /\ rpc = "wait_await"
    /\ ~sdkDone
    /\ \/ /\ produced < MaxMessages
          /\ \E msg \in SdkMessages(produced + 1, MaxBlocks - blocksUsed) :
               /\ stdoutBuf' = Append(stdoutBuf, StdoutLine("__RESEARCH_MSG__", msg))
               /\ blocksUsed' = blocksUsed + Len(msg.blocks)
               /\ sdkDone' = (msg.type = "result")
          /\ produced' = produced + 1
          /\ afterAbort' = IF cancelled THEN afterAbort + 1 ELSE afterAbort
       \/ /\ stdoutBuf = <<>>
          /\ stdoutBuf' = <<StdoutLine("plain", NoMsg)>>
          /\ UNCHANGED <<produced, blocksUsed, sdkDone, afterAbort>>
    /\ UNCHANGED <<response, mode, sandbox, out, currentStage, closeCount, rpc,
                   request, cancelled, emitted>>
    /\ UNCHANGED <<cvars, evars, pvars, svars, gvars>>

\* how the script's run ends: an await of the generator throws, or the exit
\* code and whether stderr holds text
ScriptOutcomes ==
    [threwAt : {"wait", "stderr"}, exitCode : {0}, stderr : {FALSE}]
    \cup [threwAt : {"none"}, exitCode : {0, 137}, stderr : BOOLEAN]
    \cup [threwAt : {"none"}, exitCode : {1}, stderr : {TRUE}]

\* the messages runResearchInSandbox yields after the script's output is read
FinalYields(oc) ==
    (IF oc.stderr /\ oc.exitCode # 0
     THEN <<SandboxMsg("error", "Script stderr", NoMsg)>> ELSE <<>>)
    \o (IF oc.exitCode # 0
        THEN <<SandboxMsg("error", "Research script failed", NoMsg)>> ELSE <<>>)
    \o <<SandboxMsg("status", "Sandbox cleanup complete", NoMsg)>>

\* the messages handed to onMessage from command.wait() to the first yield
ScriptQueued(stdout, oc) ==
    IF oc.threwAt = "wait" THEN <<>>
    ELSE IF oc.threwAt = "stderr" THEN ProcessLines(stdout, 1)
    ELSE IF oc.stderr
    THEN Append(ProcessLines(stdout, 1), SandboxMsg("stderr", "stderr", NoMsg))
    ELSE ProcessLines(stdout, 1)

\* the messages yielded from command.wait() to the finally block
ScriptYields(oc) ==
    IF oc.threwAt = "wait" THEN <<SandboxMsg("error", "wait", NoMsg)>>
    ELSE IF oc.threwAt = "stderr" THEN <<SandboxMsg("error", "stderr", NoMsg)>>
    ELSE FinalYields(oc)

\* runResearchInSandbox from command.wait() to the finally block
AfterScript(st, stdout, oc) == Deliver(st, ScriptQueued(stdout, oc), ScriptYields(oc))

\* the script exits (after __RESEARCH_DONE__ when the SDK's stream ended)
ScriptExits ==
    /\ rpc = "wait_await"
    /\ \E oc \in ScriptOutcomes :
         /\ (oc.threwAt = "none" /\ oc.exitCode = 0) => sdkDone
         /\ LET stdout == IF oc.exitCode = 0 /\ sdkDone
                          THEN Append(stdoutBuf, StdoutLine("__RESEARCH_DONE__", NoMsg))
                          ELSE stdoutBuf
            IN /\ stdoutBuf' = stdout
               /\ GeneratorRuns(sandbox, ScriptQueued(stdout, oc), ScriptYields(oc),
                                "stop_await")
    /\ UNCHANGED <<response, mode, sandbox, produced, blocksUsed, sdkDone,
                   request, cancelled>>
    /\ UNCHANGED <<ovars, pvars, svars, gvars>>

\* finally block: sandbox.stop() returns or throws (ignored); the generator
\* is done, the route drains the queue, writes the sentinel and closes
StopReturns ==
    /\ rpc = "stop_await"
    /\ sandbox' = "stopped"
    /\ FinishStream(Drain(St, <<>>, 1))
    /\ UNCHANGED <<response, mode, stdoutBuf, produced, blocksUsed, sdkDone,
                   request, cancelled, emitted>>
    /\ UNCHANGED <<ovars, pvars, svars, gvars>>

RouteNext ==
    \/ POST
    \/ RequestJsonReturns
    \/ SdkYields
    \/ SdkEnds
    \/ SdkThrows
    \/ SandboxCreateReturns
    \/ WriteFilesReturns
    \/ InstallReturns
    \/ ScriptStarts
    \/ ScriptPrints
    \/ ScriptExits
    \/ StopReturns

RouteSpec == Init /\ [][RouteNext]_vars

\* the suspension points at which the request waits for the execution backend
BackendAwaits ==
    {"sdk_await", "create_await", "write_await", "install_await", "run_await",
     "wait_await", "stop_await"}

\* the execution backend terminates: the request does not stay at one await
\* for ever (the SDK's stream ends or fails, every call on the sandbox
\* resolves or rejects)
BackendTerminates == rpc \in BackendAwaits /\ rpc' \in (BackendAwaits \cup {"closed"}) \ {rpc}

RouteFairSpec == RouteSpec /\ WF_rpc(BackendTerminates)

\* every call on the sandbox resolves or rejects, and the SDK's stream ends or
\* fails; command.wait() lasts as long as the research script runs
SandboxCallReturns ==
    /\ rpc \in BackendAwaits \ {"wait_await"}
    /\ rpc' \in (BackendAwaits \cup {"closed"}) \ {rpc}

\* RouteSpec when the research script need not exit
RunnerFairSpec == RouteSpec /\ WF_rpc(SandboxCallReturns)

\* the client cancels the stream it reads
ClientCancels ==
    /\ response.stream
    /\ rpc \in BackendAwaits
    /\ ~cancelled
    /\ cancelled' = TRUE
    /\ UNCHANGED <<rpc, response, mode, out, currentStage, closeCount, sandbox, stdoutBuf,
                   produced, blocksUsed, sdkDone, request, emitted>>
    /\ UNCHANGED <<ovars, pvars, svars, gvars>>


(***************************************************************************)
(* ModeSpec : one call of getExecutionMode (src/lib/sandbox/index.ts) in   *)
(* any process environment.  A variable of the environment is undefined,   *)
(* the empty string, or a non-empty string.                                *)
(***************************************************************************)
EnvValues == {"undefined", "", "1"}

\* Boolean(process.env.NAME), and the operands of || and &&
Truthy(v) == v \notin {"undefined", ""}

\* the process environment as the tests of the server see it
Truthiness(penv) == [name \in EnvNames |-> Truthy(penv[name])]

ModeInit ==
    /\ PipelineInit
    /\ RouteInit
    /\ SandboxInit
    /\ ClientInit
    /\ processEnv \in [EnvNames -> EnvValues]
    /\ decided = "none"

GetExecutionMode ==
    /\ decided = "none"
    /\ decided' = getExecutionMode(Truthiness(processEnv))
    /\ UNCHANGED <<cvars, processEnv, afterAbort>>
    /\ UNCHANGED <<pvars, rvars, svars, gvars>>

ModeNext == GetExecutionMode

ModeSpec == ModeInit /\ [][ModeNext]_vars

(***************************************************************************)
(* ClientSpec : the calls of startResearch and cancelResearch of the hook. *)
(* Each call of startResearch is an async function of its own; the calls   *)
(* run to their next await one at a time.  A read delivers one data line   *)
(* (a chunk of several lines is handled line by line in the same order).   *)
(***************************************************************************)
\* the data lines the hook can read: the events the route writes, the
\* messages of the Agent SDK it forwards, the sentinel
ClientLines ==
    {ClientLine("stage_change", s, "", <<>>) : s \in RouteStages}
    \cup {ClientLine(k, "", "", <<>>) : k \in {"status", "error", "done", "system"}}
    \cup {ClientLine("result", "", t, <<>>) : t \in {"", "report"}}
    \cup {ClientLine("assistant", "", t, <<>>) : t \in AssistantTexts}
    \cup {ClientLine("user", "", "", us) : us \in ToolResultLists}

\* abortControllerRef.current.abort(): the signal of that call is aborted
AbortCurrent(cs) ==
    IF abortControllerRef = 0 THEN cs
    ELSE [cs EXCEPT ![abortControllerRef].aborted = TRUE]

\* startResearch up to the await of fetch
StartResearch ==
    /\ \E c \in 1..MaxCalls :
         /\ calls[c].pos = "unused"
         /\ \A b \in 1..(c - 1) : calls[b].pos # "unused"
         /\ calls' = [AbortCurrent(calls) EXCEPT ![c].pos = "fetch"]
         /\ abortControllerRef' = c
    /\ SetHook([resetState(Hook) EXCEPT !.status = "researching"])
    /\ UNCHANGED <<pvars, rvars, svars, gvars, evars, afterAbort>>

\* the call returns from its catch block
Returns(c, h) ==
    /\ calls' = [calls EXCEPT ![c].pos = "returned"]
    /\ SetHook(h)

\* fetch resolves or rejects
FetchReturns(c) ==
    /\ calls[c].pos = "fetch"
    /\ IF calls[c].aborted THEN Returns(c, Catch(Hook, "AbortError"))
       ELSE \E oc \in {"ok", "not_ok", "no_body", "rejected"} :
              IF oc = "ok"
              THEN /\ calls' = [calls EXCEPT ![c].pos = "read"]
                   /\ SetHook(Hook)
              ELSE IF oc = "not_ok"
              THEN /\ calls' = [calls EXCEPT ![c].pos = "json"]
                   /\ SetHook(Hook)
              ELSE Returns(c, Catch(Hook, "Error"))
    /\ UNCHANGED abortControllerRef
    /\ UNCHANGED <<pvars, rvars, svars, gvars, evars, afterAbort>>

\* response.json() of a response that is not ok resolves or rejects: the
\* call throws in either case
ErrorBodyReturns(c) ==
    /\ calls[c].pos = "json"
    /\ Returns(c, Catch(Hook, IF calls[c].aborted THEN "AbortError" ELSE "Error"))
    /\ UNCHANGED abortControllerRef
    /\ UNCHANGED <<pvars, rvars, svars, gvars, evars, afterAbort>>

\* reader.read() resolves with a data line
ReadReturnsLine(c) ==
    /\ calls[c].pos = "read"
    /\ ~calls[c].aborted
    /\ calls[c].got < MaxReceived
    /\ \E line \in ClientLines : SetHook(HandleLine(Hook, line))
    /\ calls' = [calls EXCEPT ![c].got = calls[c].got + 1]
    /\ UNCHANGED abortControllerRef
    /\ UNCHANGED <<pvars, rvars, svars, gvars, evars, afterAbort>>

\* reader.read() resolves with done, or rejects
ReadEnds(c) ==
    /\ calls[c].pos = "read"
    /\ IF calls[c].aborted THEN Returns(c, Catch(Hook, "AbortError"))
       ELSE \E done \in BOOLEAN :
              IF done THEN Returns(c, MarkCompletion(Hook))
              ELSE Returns(c, Catch(Hook, "Error"))
    /\ UNCHANGED abortControllerRef
    /\ UNCHANGED <<pvars, rvars, svars, gvars, evars, afterAbort>>

cancelResearch ==
    /\ abortControllerRef # 0
    /\ calls' = AbortCurrent(calls)
    /\ abortControllerRef' = 0
    /\ SetHook(resetState([Hook EXCEPT !.status = "idle"]))
    /\ UNCHANGED <<pvars, rvars, svars, gvars, evars, afterAbort>>

ClientNext ==
    \/ StartResearch
    \/ \E c \in 1..MaxCalls : FetchReturns(c)
    \/ \E c \in 1..MaxCalls : ErrorBodyReturns(c)
    \/ \E c \in 1..MaxCalls : ReadReturnsLine(c)
    \/ \E c \in 1..MaxCalls : ReadEnds(c)
    \/ cancelResearch

ClientSpec == Init /\ [][ClientNext]_vars

(***************************************************************************)
(* SandboxSpec : runResearchInSandbox(topic, callbacks) of                 *)
(* src/lib/sandbox/runner.ts, which runs the research script in the        *)
(* sandbox and dispatches the messages of its stdout to the callbacks;     *)
(* beside it, the generator runResearchInSandbox under the route, whose    *)
(* client may cancel the stream.  One call is considered at a time.        *)
(***************************************************************************)
MaxLines == 2

\* finalReport: the report of the last result message, "undefined" if none
RECURSIVE FinalReport(_, _)
FinalReport(lines, p) ==
    IF p = 0 THEN "undefined"
    ELSE IF lines[p].prefix = "__MSG__" /\ lines[p].type = "result" THEN lines[p].msg
    ELSE FinalReport(lines, p - 1)

V2Lines ==
    {ScriptMsg("stage_change", "planning", "active", "Analyzing research topic", 0),
     ScriptMsg("source", "", "", "", 1),
     ScriptMsg("error", "planning", "", "Could not parse search plan", 0),
     ScriptMsg("result", "", "", "report", 0),
     MalformedLine,
     PlainLine}

\* how the run of node index.js ends: runCommand or result.output throws, or
\* the script's stdout and exit code
ScriptRuns ==
    [threw : {TRUE}, stdout : {<<>>}, exitCode : {0}]
    \cup [threw : {FALSE}, stdout : SeqUpTo(V2Lines, MaxLines), exitCode : {0, 1}]

Thrown(msg) == [threw |-> TRUE, success |-> FALSE, report |-> "", error |-> msg]

\* the body of the try throws: the finally block runs with the error pending
ThrowsInTry(msg) ==
    /\ vresult' = Thrown(msg)
    /\ vpc' = "stop_await"

\* runResearchInSandbox up to Sandbox.create: the credentials are validated
RunResearchInSandbox ==
    /\ vpc = "start"
    /\ rpc = "idle"
    /\ \E token, projectId \in BOOLEAN :
         IF ~token \/ ~projectId
         THEN /\ vresult' = Thrown("credentials")
              /\ vpc' = "done"
         ELSE /\ vresult' = vresult
              /\ vpc' = "create_await"
    /\ UNCHANGED <<vsandbox, vcalls>>
    /\ UNCHANGED <<ovars, pvars, rvars, gvars>>

\* Sandbox.create returns or throws (outside the try block)
CreateReturns ==
    /\ vpc = "create_await"
    /\ \E ok \in BOOLEAN :
         IF ok
         THEN /\ vsandbox' = "running"
              /\ vresult' = vresult
              /\ vpc' = "write_await"
         ELSE /\ vsandbox' = vsandbox
              /\ vresult' = Thrown("create")
              /\ vpc' = "done"
    /\ UNCHANGED vcalls
    /\ UNCHANGED <<ovars, pvars, rvars, gvars>>

\* sandbox.writeFiles returns or throws
WriteReturns ==
    /\ vpc = "write_await"
    /\ \E ok \in BOOLEAN :
         IF ok
         THEN /\ vresult' = vresult
              /\ vpc' = "install_await"
         ELSE ThrowsInTry("write")
    /\ UNCHANGED <<vsandbox, vcalls>>
    /\ UNCHANGED <<ovars, pvars, rvars, gvars>>

\* npm install without the script that follows a non-zero exit code
NpmInstallChecked(oc) ==
    IF oc = "ok"
    THEN /\ vresult' = vresult
         /\ vpc' = "run_await"
    ELSE IF oc = "nonzero"
    THEN /\ vresult' = [threw |-> FALSE, success |-> FALSE, report |-> "",
                        error |-> "npm install failed"]
         /\ vpc' = "stop_await"
    ELSE ThrowsInTry("install")

\* sandbox.runCommand({cmd: 'npm'}) returns or throws; its exit code is not read
NpmInstall(oc) ==
    IF oc \in {"ok", "nonzero"}
    THEN /\ vresult' = vresult
         /\ vpc' = "run_await"
    ELSE ThrowsInTry("install")

NpmInstallReturns ==
    /\ vpc = "install_await"
    /\ \E oc \in {"ok", "nonzero", "throw"} :
         /\ installed' = oc
         /\ NpmInstall(oc)
    /\ UNCHANGED <<vsandbox, vcalls, scriptRan>>
    /\ UNCHANGED <<ovars, pvars, rvars>>

\* sandbox.runCommand({cmd: 'node'}) and result.output return: the lines of
\* stdout are dispatched, and the result of the call is decided
ScriptReturns ==
    /\ vpc = "run_await"
    /\ \E run \in ScriptRuns :
         IF run.threw
         THEN /\ ThrowsInTry("run")
              /\ vcalls' = vcalls
         ELSE /\ vcalls' = vcalls \o Dispatch(run.stdout, 1)
              /\ vresult' =
                   IF run.exitCode # 0
                   THEN [threw |-> FALSE, success |-> FALSE, report |-> "",
                         error |-> "Sandbox execution failed with exit code"]
                   ELSE [threw |-> FALSE, success |-> TRUE,
                         report |-> FinalReport(run.stdout, Len(run.stdout)), error |-> ""]
              /\ vpc' = "stop_await"
    /\ scriptRan' = TRUE
    /\ UNCHANGED <<vsandbox, installed>>
    /\ UNCHANGED <<ovars, pvars, rvars>>

\* finally block: sandbox.stop() returns, or throws and its error replaces
\* the outcome of the try block
SandboxStopReturns ==
    /\ vpc = "stop_await"
    /\ \E ok \in BOOLEAN :
         vresult' = IF ok THEN vresult ELSE Thrown("stop")
    /\ vsandbox' = "stopped"
    /\ vpc' = "done"
    /\ UNCHANGED vcalls
    /\ UNCHANGED <<ovars, pvars, rvars, gvars>>

SandboxNext ==
    \/ POST
    \/ RequestJsonReturns
    \/ SdkYields
    \/ SdkEnds
    \/ SdkThrows
    \/ SandboxCreateReturns
    \/ WriteFilesReturns
    \/ InstallReturns
    \/ ScriptStarts
    \/ ScriptPrints
    \/ ScriptExits
    \/ StopReturns
    \/ ClientCancels
    \/ RunResearchInSandbox
    \/ CreateReturns
    \/ WriteReturns
    \/ NpmInstallReturns
    \/ ScriptReturns
    \/ SandboxStopReturns

SandboxSpec == Init /\ [][SandboxNext]_vars

(***************************************************************************)
(* Properties of the pipeline (specification Spec).                        *)
(***************************************************************************)
PipelineStages == {"planning", "searching", "writing"}

StageIdx(stage) ==
    IF stage = "planning" THEN 1 ELSE IF stage = "searching" THEN 2 ELSE 3

IsStageEvent(e) == e.type = "stage_change" /\ e.stage \in PipelineStages

StageEvents == SelectSeq(events, IsStageEvent)

\* position of a stage event in planning(active), planning(completed|error),
\* searching(active), searching(completed|error), writing(active), writing(completed|error)
Rank(e) == 2 * StageIdx(e.stage) - (IF e.status = "active" THEN 1 ELSE 0)

Count(stage, status) ==
    Cardinality({p \in 1..Len(events) :
        /\ events[p].type = "stage_change"
        /\ events[p].stage = stage
        /\ events[p].status = status})

Emitted(stage, status) == Count(stage, status) > 0

SourceUrls(srcs) == [p \in 1..Len(srcs) |-> srcs[p].url]

UrlSet(srcs) == {srcs[p].url : p \in 1..Len(srcs)}

IsSourceEvent(e) == e.type = "source"

SourceEventUrls ==
    LET se == SelectSeq(events, IsSourceEvent)
    IN [p \in 1..Len(se) |-> se[p].url]

NoDuplicateUrl(srcs) ==
    \A p, q \in 1..Len(srcs) : p # q => srcs[p].url # srcs[q].url

\* C1: the onStageChange events of planning, searching and writing are a
\* subsequence of planning(active), planning(completed|error), searching(active),
\* searching(completed|error), writing(active), writing(completed|error), and no
\* stage becomes active after a stage has emitted error.
C1_StageOrder ==
    LET se == StageEvents
    IN \A p, q \in 1..Len(se) :
         p < q => /\ Rank(se[p]) < Rank(se[q])
                  /\ (se[p].status = "error" => se[q].status # "active")

\* a run that stopped at a failed searching stage, after planning completed
C1_Witness ==
    /\ pc = "done"
    /\ Len(StageEvents) = 4
    /\ StageEvents[2].status = "completed"
    /\ StageEvents[4].stage = "searching"
    /\ StageEvents[4].status = "error"

\* C2: each stage emits active at most once; a stage that emitted active has
\* emitted exactly one of completed and error when the run returns, and no stage
\* emits completed or error without having emitted active.
C2_OncePerStage ==
    \A stage \in PipelineStages :
        /\ Count(stage, "active") <= 1
        /\ Count(stage, "completed") + Count(stage, "error") <= Count(stage, "active")
        /\ pc = "done" =>
             Count(stage, "completed") + Count(stage, "error") = Count(stage, "active")

\* a returned run whose Writer answered with an empty text: writing has emitted
\* active and completed, and nothing else
C2_Witness ==
    /\ pc = "done"
    /\ ~result.success
    /\ Count("writing", "active") = 1
    /\ Count("writing", "completed") = 1
    /\ Count("writing", "error") = 0

\* C3: a run that returns success = false ends with stage_change(stage, error)
\* followed by the error event of that stage (so that no later stage started),
\* whatever the stage executors returned.
C3_FailureReported ==
    (pc = "done" /\ ~result.success) =>
        LET n == Len(events)
        IN /\ n >= 2
           /\ events[n - 1].type = "stage_change"
           /\ events[n - 1].status = "error"
           /\ events[n].type = "error"
           /\ events[n].stage = events[n - 1].stage

\* C4: stage_change(writing, completed) is followed at once by the marker
\* stage_change(completed, completed), and the run returns success = true
\* with the report.
C4_CompletedMarker ==
    \A p \in 1..Len(events) :
        (pc = "done" /\ events[p].type = "stage_change"
                     /\ events[p].stage = "writing" /\ events[p].status = "completed") =>
            /\ p < Len(events)
            /\ events[p + 1].type = "stage_change"
            /\ events[p + 1].stage = "completed"
            /\ events[p + 1].status = "completed"
            /\ result.success
            /\ result.report # ""

\* C5: when the Planner's response holds no JSON object, the run emits
\* stage_change(planning, error), then an error event, and returns: no event of
\* the searching or the writing stage exists.
C5_NoJsonHalts ==
    noJsonObject =>
        /\ pc = "done"
        /\ ~result.success
        /\ Len(events) = 4
        /\ events[3].type = "stage_change"
        /\ events[3].stage = "planning"
        /\ events[3].status = "error"
        /\ events[4].type = "error"
        /\ \A p \in 1..Len(events) : events[p].stage \notin {"searching", "writing"}

\* the Planner answered a text with braces in it that holds no JSON object
C5_Witness ==
    /\ noJsonObject
    /\ pc = "done"
    /\ events[3].msg = "syntax_error"

\* C6: no two sources have the same URL, one source event was emitted per
\* source, in the order of the list, the list holds exactly the URLs the
\* successful searches returned, and the returned list is that list.
C6_Dedup ==
    /\ NoDuplicateUrl(sources)
    /\ SourceEventUrls = SourceUrls(sources)
    /\ UrlSet(sources) = returnedUrls
    /\ seenUrls = returnedUrls
    /\ NoDuplicateUrl(result.sources)
    /\ (pc = "done" /\ result.success) => SourceUrls(result.sources) = SourceUrls(sources)

\* a successful run in which a later search returned a URL again
C6_Witness ==
    /\ dupReturned
    /\ pc = "done"
    /\ result.success
    /\ Len(result.sources) = NumUrls

\* C7: after a failed search call the stage has not failed, every URL that a
\* successful call returned is a source, every query of the plan is issued,
\* and the stage completes.
StatusCount(msg) ==
    Cardinality({p \in 1..Len(events) : events[p].type = "status" /\ events[p].msg = msg})

C7_SearchFailureSkipped ==
    searchFailed =>
        /\ ~Emitted("searching", "error")
        /\ returnedUrls \subseteq UrlSet(sources)
        /\ pc = "search_await" => StatusCount("Searching") = i + 1
        /\ pc \in {"contents_await", "write_await", "done"} =>
             StatusCount("Searching") = plan.nq
        /\ pc \in {"write_await", "done"} => Emitted("searching", "completed")

\* the first search failed, the second one found sources, the stage completed
C7_Witness ==
    /\ searchFailed
    /\ Len(sources) > 0
    /\ plan.nq = MaxQueries
    /\ Emitted("searching", "completed")

\* C8: after a failed getContents call the searching stage has completed and
\* the Writer has been started, with the sources found and no fetched text;
\* a searching stage that completes with no source starts the Writer too.
C8_ContentsFailureNonFatal ==
    /\ contentsFailed =>
         /\ pc \in {"write_await", "done"}
         /\ Emitted("searching", "completed")
         /\ ~Emitted("searching", "error")
         /\ Emitted("writing", "active")
         /\ contents = <<>>
         /\ UrlSet(sources) = returnedUrls
    /\ (Emitted("searching", "completed") /\ sources = <<>>) =>
         /\ Emitted("writing", "active")
         /\ contents = <<>>

\* getContents failed and the Writer's LLM call is in flight
C8_Witness ==
    /\ contentsFailed
    /\ pc = "write_await"
    /\ Len(sources) > 0

\* the searching stage completed without any source and the Writer was started
C8_WitnessNoSources ==
    /\ pc = "write_await"
    /\ sources = <<>>
    /\ contents = <<>>

(***************************************************************************)
(* Properties of the route (specifications RouteSpec and RouteFairSpec).   *)
(***************************************************************************)
\* a terminal event: an error event, or the SDK's result message
IsTerminal(line) ==
    line.kind = "error" \/ (line.kind = "message" /\ line.msg.type = "result")

\* C9: a stream that has been closed ends with the sentinel [DONE], and a
\* terminal event (result or error) was written before it.
C9_TerminalThenDone ==
    rpc = "closed" =>
        /\ Len(out) >= 2
        /\ out[Len(out)] = DoneLine
        /\ \E p \in 1..(Len(out) - 1) : IsTerminal(out[p])

\* C10: a stream that was opened is eventually closed, and close() is never
\* called twice.
C10_ClosedOnce ==
    /\ [](closeCount <= 1)
    /\ [](response.stream => <>(closeCount = 1))

\* a stream closed after the execution backend threw
C10_Witness ==
    /\ rpc = "closed"
    /\ closeCount = 1
    /\ out[Len(out)].kind = "error"

IsStageLine(line) == line.kind = "stage_change"

IsMessageLine(line) == line.kind = "message"

\* the agent messages forwarded on a stream, in order
Msgs(o) ==
    LET ml == SelectSeq(o, IsMessageLine)
    IN [p \in 1..Len(ml) |-> ml[p].msg]

StageLinesOf(o) == SelectSeq(o, IsStageLine)

NoStream == [out |-> <<>>, cs |-> "null"]

\* runResearchDirect over a sequence of agent messages
RECURSIVE FoldDirect(_, _, _)
FoldDirect(st, msgs, p) ==
    IF p > Len(msgs) THEN st
    ELSE FoldDirect(ProcessDirectMessage(st, msgs[p]), msgs, p + 1)

\* runResearchWithSandbox over the same messages, each a result message of the runner
RECURSIVE FoldSandbox(_, _, _)
FoldSandbox(st, msgs, p) ==
    IF p > Len(msgs) THEN st
    ELSE FoldSandbox(ProcessSandboxMessage(st, SandboxMsg("result", "", msgs[p])),
                     msgs, p + 1)

\* C17: for the agent messages forwarded on a stream, the direct path and the
\* sandbox path write the same sequence of stage_change events.
C17_SameStageChanges ==
    response.stream =>
        StageLinesOf(FoldDirect(NoStream, Msgs(out), 1).out)
            = StageLinesOf(FoldSandbox(NoStream, Msgs(out), 1).out)

\* C18: every line written to the stream other than the sentinel carries an
\* object with exactly the members type and data, whose type is one of
\* stage_change, status, source, result, error.
C18_WrappedPayload ==
    \A p \in 1..Len(out) :
        out[p] # DoneLine =>
            /\ LineKeys(out[p]) = {"type", "data"}
            /\ LineType(out[p]) \in {"stage_change", "status", "source", "result", "error"}

\* topic.trim(): the topic without its leading and trailing white space
RECURSIVE TrimStart(_)
TrimStart(t) == IF t # <<>> /\ Head(t) = " " THEN TrimStart(Tail(t)) ELSE t

RECURSIVE TrimEnd(_)
TrimEnd(t) ==
    IF t # <<>> /\ t[Len(t)] = " " THEN TrimEnd(SubSeq(t, 1, Len(t) - 1)) ELSE t

Trim(t) == TrimEnd(TrimStart(t))

\* C19: a request whose topic has fewer than 3 characters after trimming is
\* answered with HTTP 400, and no event stream is opened.
C19_ShortTopicRejected ==
    [][(rpc = "json_await" /\ request.json /\ request.kind = "string"
            /\ Len(Trim(request.topic)) < 3)
         => (response'.status = 400 /\ ~response'.stream)]_vars

\* C20: a request whose body is not valid JSON, or whose topic is missing or
\* not a string, is answered with an HTTP 4xx status, and no stream is opened.
C20_MalformedRejected ==
    [][(rpc = "json_await" /\ (~request.json \/ request.kind \in {"missing", "number"}))
         => (response'.status \in 400..499 /\ ~response'.stream)]_vars

\* the lines of a stream that carry a message of the runner
IsRunnerLine(line) == line.kind \in {"status", "message", "error"}

\* the messages of the runner the route writes (stdout and stderr are dropped)
IsWritten(m) == m.type \in {"status", "result", "error"}

LineOf(m) ==
    IF m.type = "status" THEN StatusLine(m.text)
    ELSE IF m.type = "result" THEN MessageLine(m.msg)
    ELSE ErrorLine(m.text)

LinesOf(log) ==
    LET w == SelectSeq(log, IsWritten)
    IN [p \in 1..Len(w) |-> LineOf(w[p])]

\* C14: in the sandbox path the lines written for the runner's messages are
\* the messages the runner has produced (handed to onMessage or yielded), in
\* the order it produced them, each once.
C14_OrderPreserved ==
    (response.stream /\ mode = "sandbox") =>
        SelectSeq(out, IsRunnerLine) = LinesOf(emitted)

\* a closed stream on which agent messages read from stdout were followed by
\* a yielded error of the failed script
C14_Witness ==
    /\ rpc = "closed"
    /\ mode = "sandbox"
    /\ \E p, q \in 1..Len(emitted) :
         p < q /\ emitted[p].type = "result" /\ emitted[q].type = "error"

IsMsgLine(l) == l.prefix = "__RESEARCH_MSG__"

\* C15: a message the research script has printed reaches the client while
\* the script is still running: it is on the stream before the script's exit,
\* unless the script exits first.
C15_StreamedAsPrinted ==
    [](((rpc = "wait_await") /\ SelectSeq(stdoutBuf, IsMsgLine) # <<>>)
         => <>(SelectSeq(out, IsMessageLine) # <<>> \/ rpc # "wait_await"))

\* while the research script runs, no message of its stdout is on the stream
C15_NothingWhileRunning ==
    (mode = "sandbox" /\ rpc \in {"run_await", "wait_await"})
        => SelectSeq(out, IsMessageLine) = <<>>

(***************************************************************************)
(* Properties of the two runResearchInSandbox (specification SandboxSpec). *)
(***************************************************************************)
\* the generator under the route has finished
GeneratorFinished == rpc \in {"closed", "aborted"}

\* C11: once the sandbox has been created, it is stopped before
\* runResearchInSandbox finishes, whichever way it finishes (success, a failed
\* write, install or script, an exception, the consumer ending early).
C11_SandboxStopped ==
    /\ (GeneratorFinished /\ sandbox # "null") => sandbox = "stopped"
    /\ (vpc = "done" /\ vsandbox # "null") => vsandbox = "stopped"

\* the client cancelled the stream while the sandbox ran, and the generator
\* finished with the sandbox stopped
C11_Witness ==
    /\ rpc = "aborted"
    /\ cancelled
    /\ sandbox = "stopped"

\* C12: runResearchInSandbox never throws to its caller: every failure is
\* reported as an error message or a failure result.
C12_NeverThrows == vpc = "done" => ~vresult.threw

IsErrorCall(e) == e.type = "error"

IsErrorLine(line) == line.kind = "error"

\* C13: when the installation of the dependencies exits non-zero, the research
\* script is not run, and at the end exactly one error event was produced and
\* the sandbox is stopped.
C13_InstallFailure ==
    installed = "nonzero" =>
        /\ ~scriptRan
        /\ vpc = "done" =>
              (vsandbox = "stopped" /\ Len(SelectSeq(vcalls, IsErrorCall)) = 1)
        /\ rpc = "closed" =>
              (sandbox = "stopped" /\ Len(SelectSeq(out, IsErrorLine)) = 1)

\* C13 for the generator under the route alone
C13_GeneratorInstallFailure ==
    (installed = "nonzero" /\ vpc = "start") =>
        /\ ~scriptRan
        /\ rpc = "closed" =>
              (sandbox = "stopped" /\ Len(SelectSeq(out, IsErrorLine)) = 1)

(***************************************************************************)
(* The research script against the in-process pipeline (specification      *)
(* Spec).                                                                  *)
(***************************************************************************)
\* C16: for the same outcomes of the LLM and search calls, the calls that
\* runResearchInSandbox makes on the callbacks for the stdout of the research
\* script are the calls runResearchPipeline makes, in the same order, on
\* success and on a failure of the planner, the searcher or the writer.
C16_SameEvents == pc = "done" => Dispatch(scriptOut, 1) = events

\* the two sequences are the same when the run ends with a report
C16_SameOnSuccess == (pc = "done" /\ result.success) => Dispatch(scriptOut, 1) = events

\* C21: every Search Plan the Planner stage returns has as many searchTypes
\* as queries (and an ordered dateRange when it is time-sensitive); a response
\* that does not makes the stage fail.
C21_PlanInvariant == plan.nq = plan.ntypes

\* the URLs of the documents the getContents call of this step returned
Fetched == {contents'[q] : q \in (Len(contents) + 1)..Len(contents')}

\* C27: attaching the snippets of the fetched content changes only the
\* snippet of the sources whose content was fetched: the list keeps its
\* length and order, no source is added, every other field is unchanged.
C27_SnippetOnly ==
    [][pc = "contents_await" =>
         /\ Len(sources') = Len(sources)
         /\ \A p \in 1..Len(sources) :
              /\ sources'[p].url = sources[p].url
              /\ sources'[p].snippet # sources[p].snippet => sources[p].url \in Fetched]_vars

\* content was fetched for one of two sources: it has the snippet, the other
\* has none
C27_Witness ==
    /\ pc = "write_await"
    /\ Len(sources) = 2
    /\ \E p, q \in 1..2 : sources[p].snippet = "snippet" /\ sources[q].snippet = ""

\* the messages the generator hands to onMessage (the others it yields)
IsHandedOver(m) ==
    \/ m.type \in {"result", "stdout", "stderr"}
    \/ m.type = "status" /\ m.text = "Research complete"
    \/ m.type = "error" /\ m.text = "script"

IsYielded(m) == ~IsHandedOver(m)

\* the messages the generator has yielded, in order
Yielded == SelectSeq(emitted, IsYielded)

\* C30: in every run of the generator runResearchInSandbox at most one error
\* message is yielded, and it is the last message yielded.
C30_ErrorIsLast ==
    \A p \in 1..Len(Yielded) : Yielded[p].type = "error" => p = Len(Yielded)

\* C23: once the client has aborted the request, the run is stopped on the
\* server: the agent goes on to no further capability call, so that it produces
\* at most the message of the call in flight at the abort.
C23_StopsAfterAbort == afterAbort <= 1

\* C23, second half: a sandbox created for a cancelled request is stopped
\* when the generator has finished
C23_SandboxStopped == (cancelled /\ rpc = "aborted" /\ sandbox # "null") => sandbox = "stopped"

(***************************************************************************)
(* getExecutionMode (specification ModeSpec).                              *)
(***************************************************************************)
\* the variable is set: it is defined and its value is not empty
IsSet(name) == processEnv[name] \notin {"undefined", ""}

\* C26: getExecutionMode returns sandbox if and only if the Vercel
\* environment is detected (VERCEL or VERCEL_ENV set) and the sandbox
\* credentials are present (VERCEL_TOKEN and VERCEL_PROJECT_ID set), and local
\* in every other case, whatever the other variables are.
C26_ModeIff ==
    decided # "none" =>
        decided = (IF /\ IsSet("VERCEL") \/ IsSet("VERCEL_ENV")
                      /\ IsSet("VERCEL_TOKEN") /\ IsSet("VERCEL_PROJECT_ID")
                   THEN "sandbox" ELSE "local")

\* the call returned sandbox with VERCEL_ENV alone marking the environment,
\* and no API key defined
C26_Witness ==
    /\ decided = "sandbox"
    /\ ~IsSet("VERCEL")
    /\ processEnv["ANTHROPIC_API_KEY"] = "undefined"
    /\ processEnv["EXA_API_KEY"] = "undefined"

(***************************************************************************)
(* Properties of the hook useResearchAgent (specification ClientSpec).     *)
(***************************************************************************)
\* the step is one of call c, whose signal was aborted before it
StepOfAborted(c) == calls[c].aborted /\ calls'[c] # calls[c]

\* stages, sources, report and error are as resetState leaves them
IsReset ==
    /\ clientStages = INITIAL_STAGES
    /\ clientSources = <<>>
    /\ clientReport = "null"
    /\ clientError = "null"

\* C22: after the client has cancelled a session, its status is idle and
\* never error, and what is left of the cancelled call changes none of
\* stages, sources, report and error.
C22_CancelledIsIdle ==
    [][/\ \A c \in 1..MaxCalls :
            StepOfAborted(c) =>
                /\ clientStatus' # "error"
                /\ UNCHANGED <<clientStages, clientSources, clientReport, clientError>>
       /\ abortControllerRef' = 0 => (clientStatus' = "idle" /\ IsReset')]_vars

\* a session that had read a message was cancelled with cancelResearch, and
\* its call has returned
C22_Witness ==
    /\ abortControllerRef = 0
    /\ clientStatus = "idle"
    /\ \E c \in 1..MaxCalls :
         calls[c].aborted /\ calls[c].pos = "returned" /\ calls[c].got > 0

\* C28: when startResearch was called while an earlier call was in flight,
\* what is left of the earlier, aborted call does not change the status of
\* the new session.
C28_NewSessionUntouched ==
    [][\A c \in 1..MaxCalls :
         (StepOfAborted(c) /\ abortControllerRef \notin {0, c})
             => clientStatus' = clientStatus]_vars

\* C29: once the status is error it does not become completed, neither by
\* the sentinel nor by the end of the stream.
C29_ErrorStays == [][clientStatus = "error" => clientStatus' # "completed"]_vars

Active == {s \in ClientStageNames : clientStages[s] = "active"}

\* a call of startResearch is in its read loop
Reading == \E c \in 1..MaxCalls : calls[c].pos = "read"

\* C24: while the stream is read, whatever stage_change messages arrive, at
\* most one stage of the progress map is active, the completed stages are an
\* initial segment of the pipeline order, and no stage is active when a stage
\* has status error.
C24_StageMap ==
    Reading =>
        /\ Cardinality(Active) <= 1
        /\ \A s, t \in ClientStageNames :
             (IndexOf(s) < IndexOf(t) /\ clientStages[t] = "completed")
                 => clientStages[s] = "completed"
        /\ (\E s \in ClientStageNames : clientStages[s] = "error") => Active = {}

\* C25: no two sources of the client's list have the same URL.
C25_UniqueUrls ==
    \A p, q \in 1..Len(clientSources) :
        clientSources[p] = clientSources[q] => p = q

====
